---- MODULE Spec2Model ----
(***************************************************************************)
(* Medication recommender: the /recommend request handler (app.py) and the *)
(* PerplexityService (perplexity_service.py): prompt builder, completion   *)
(* client and recommendation extractor.                                    *)
(*                                                                         *)
(* A Python str is a sequence of one-character strings.  An Optional value *)
(* is a sequence of length at most one: None is << >> and a present value  *)
(* v is <<v>>, so that None and the empty string stay different.           *)
(***************************************************************************)
EXTENDS Integers, Sequences, FiniteSets, TLC

VARIABLES
    api_key,        \* PerplexityService.api_key: None or the credential
    op,             \* the entry point that ran last ("none" after construction)
    symptoms,       \* /recommend: the raw "symptoms" form field
    symptom_list,   \* the cleaned list of symptoms handed to the service
    upstream,       \* how the remote endpoint answers this invocation's POST
    response_text,  \* the value given to / returned by the completion client
    medications,    \* the value returned by the service or the extractor
    query,          \* the prompt built for the completion client, if any
    posts,          \* outbound POSTs made by this invocation
    outcome,        \* /recommend: the template context that was rendered
    raised          \* whether an exception escaped the entry point

vars == <<api_key, op, symptoms, symptom_list, upstream, response_text,
          medications, query, posts, outcome, raised>>

----------------------------------------------------------------------------
(* Python values *)

None == << >>
Some(v) == <<v>>

\* A JSON / Python value as the completion endpoint may return it.
Str(s) == [type |-> "str", s |-> s]
JsonInt == [type |-> "int", s |-> << >>]
NoneValue == [type |-> "NoneType", s |-> << >>]

\* bool(v) of a value: None and "" are falsy; the int modelled is non-zero.
Truthy(v) == IF v.type = "str" THEN v.s # << >> ELSE v.type = "int"

NL == "\n"
Whitespace == {" ", NL, "\t", "\r"}
Digits == {"0", "1", "2", "3", "4", "5", "6", "7", "8", "9"}

UpperCase == <<"A","B","C","D","E","F","G","H","I","J","K","L","M",
               "N","O","P","Q","R","S","T","U","V","W","X","Y","Z">>
LowerCase == <<"a","b","c","d","e","f","g","h","i","j","k","l","m",
               "n","o","p","q","r","s","t","u","v","w","x","y","z">>

\* Case folding of one character (re.IGNORECASE).
UpperSet == {UpperCase[i] : i \in 1..26}
LowerOf == [c \in UpperSet |-> LowerCase[CHOOSE i \in 1..26 : UpperCase[i] = c]]
Lower(c) == IF c \in UpperSet THEN LowerOf[c] ELSE c

Min(a, b) == IF a <= b THEN a ELSE b

\* The first index >= i whose character is outside S (Len(t)+1 if none):
\* the end of a greedy run of a character class.
SkipIn(t, i, S) ==
    IF i > Len(t) THEN i
    ELSE CHOOSE j \in i..(Len(t) + 1) :
            /\ j > Len(t) \/ t[j] \notin S
            /\ \A k \in i..(j - 1) : t[k] \in S

\* The first index >= i whose character is in S (Len(t)+1 if none):
\* the end of a greedy run of a negated character class.
SkipTo(t, i, S) ==
    IF i > Len(t) THEN i
    ELSE CHOOSE j \in i..(Len(t) + 1) :
            /\ j > Len(t) \/ t[j] \in S
            /\ \A k \in i..(j - 1) : t[k] \notin S

\* The literal lit occurs in t at index i (ic: ignoring case).
LitAt(t, i, lit, ic) ==
    /\ i + Len(lit) - 1 <= Len(t)
    /\ \A k \in 1..Len(lit) :
          (IF ic THEN Lower(t[i + k - 1]) ELSE t[i + k - 1]) = lit[k]

\* The largest index q in lo..hi (q <= Len(t)) with t[q] outside S, or 0:
\* where a greedy \s* that gives characters back lets the next item start.
LastNotIn(t, lo, hi, S) ==
    LET top == Min(hi, Len(t))
    IN  IF \E q \in lo..top : t[q] \notin S
        THEN CHOOSE q \in lo..top :
                t[q] \notin S /\ \A k \in (q + 1)..top : t[k] \in S
        ELSE 0

\* The largest index q in lo..hi with t[q] = "\n", or 0.
LastNL(t, lo, hi) ==
    LET top == Min(hi, Len(t))
    IN  IF \E q \in lo..top : t[q] = NL
        THEN CHOOSE q \in lo..top :
                t[q] = NL /\ \A k \in (q + 1)..top : t[k] # NL
        ELSE 0

\* str.strip(): leading and trailing whitespace removed.
Strip(s) ==
    LET a == SkipIn(s, 1, Whitespace)
    IN  SubSeq(s, a, LastNotIn(s, a, Len(s), Whitespace))

----------------------------------------------------------------------------
(* Recommendation extractor: PerplexityService.parse_medication_recommendations *)

\* "Process max 3 items": the slice medication_sections[:3].
MaxItems == 3

\* A Python str literal as a sequence of characters.
Choice == <<"c","h","o","i","c","e">>
OrdinalSuffixes == {<<"s","t">>, <<"n","d">>, <<"r","d">>, <<"t","h">>}

\* The section separator of re.split, tried at index p:
\*    (?:\n\s*\n|\n\s*(?:\d+(?:st|nd|rd|th)\s*choice|choice\s*\d+:))
\* The index after the match, or 0 when the pattern does not match at p.
\* Alternative 1, \n\s*\n: the greedy \s* takes the whole whitespace run and
\* gives back until a "\n" follows, so the match ends at the run's last "\n".
\* Alternative 2 is tried only when alternative 1 fails; what follows its \s*
\* and \d+ is never a whitespace or a digit, so both take their whole run.
SepEnd(t, p) ==
    IF p > Len(t) \/ t[p] # NL THEN 0
    ELSE LET r == SkipIn(t, p + 1, Whitespace)
             q == LastNL(t, p + 1, r - 1)
             d == SkipIn(t, r, Digits)
         IN  IF q > 0 THEN q + 1
             ELSE IF d > r /\ d + 1 <= Len(t)
                     /\ <<t[d], t[d + 1]>> \in OrdinalSuffixes
                     /\ LitAt(t, SkipIn(t, d + 2, Whitespace), Choice, FALSE)
                  THEN SkipIn(t, d + 2, Whitespace) + Len(Choice)
             ELSE IF LitAt(t, r, Choice, FALSE)
                  THEN LET w == SkipIn(t, r + Len(Choice), Whitespace)
                           e == SkipIn(t, w, Digits)
                       IN  IF e > w /\ e <= Len(t) /\ t[e] = ":"
                           THEN e + 1 ELSE 0
             ELSE 0

\* re.split(pattern, response_text): the pieces between the successive
\* leftmost matches (a match is never empty), the last piece included.
\* p is where the leftmost match at or after start begins.
RECURSIVE SplitFrom(_, _)
SplitFrom(t, start) ==
    IF \A j \in start..Len(t) : SepEnd(t, j) = 0
    THEN <<SubSeq(t, start, Len(t))>>
    ELSE LET p == CHOOSE j \in start..Len(t) :
                     /\ SepEnd(t, j) > 0
                     /\ \A k \in start..(j - 1) : SepEnd(t, k) = 0
         IN  <<SubSeq(t, start, p - 1)>> \o SplitFrom(t, SepEnd(t, p))

re_split(t) == SplitFrom(t, 1)

\* medication_sections after [s for s in medication_sections if s.strip()].
NonBlank(s) == Strip(s) # << >>
medication_sections(t) == SelectSeq(re_split(t), NonBlank)

\* The labels of the four field patterns, each alternative in the order the
\* regular expression tries it.
NameLabels ==          \* (?:brand name|medication|name)
    << <<"b","r","a","n","d"," ","n","a","m","e">>,
       <<"m","e","d","i","c","a","t","i","o","n">>,
       <<"n","a","m","e">> >>
IngredientsLabels ==   \* (?:active )?ingredients
    << <<"a","c","t","i","v","e"," ","i","n","g","r","e","d","i","e","n","t","s">>,
       <<"i","n","g","r","e","d","i","e","n","t","s">> >>
DosageLabels ==        \* (?:recommended )?dosage
    << <<"r","e","c","o","m","m","e","n","d","e","d"," ","d","o","s","a","g","e">>,
       <<"d","o","s","a","g","e">> >>
SideEffectsLabels ==   \* side effects
    << <<"s","i","d","e"," ","e","f","f","e","c","t","s">> >>

\* The tail  :\s*([^\n]+  of a label pattern, the ":" expected at index c:
\* the index where the group starts, or 0.  The greedy \s* (which crosses
\* line ends) gives characters back until one that is not "\n" follows.
TailStart(t, c) ==
    IF c > Len(t) \/ t[c] # ":" THEN 0
    ELSE LastNotIn(t, c + 1, Min(SkipIn(t, c + 1, Whitespace), Len(t)), {NL})

\* A label pattern tried at index i: the start of its group, or 0.
RECURSIVE LabelAt(_, _, _, _)
LabelAt(t, i, labels, k) ==
    IF k > Len(labels) THEN 0
    ELSE LET q == IF LitAt(t, i, labels[k], TRUE)
                  THEN TailStart(t, i + Len(labels[k])) ELSE 0
         IN  IF q > 0 THEN q ELSE LabelAt(t, i, labels, k + 1)

\* re.search of a label pattern: the group start of the leftmost match, or 0.
LabelSearch(t, i, labels) ==
    IF \A j \in i..Len(t) : LabelAt(t, j, labels, 1) = 0 THEN 0
    ELSE LET p == CHOOSE j \in i..Len(t) :
                     /\ LabelAt(t, j, labels, 1) > 0
                     /\ \A k \in i..(j - 1) : LabelAt(t, k, labels, 1) = 0
         IN  LabelAt(t, p, labels, 1)

\* The end (exclusive) of the group  [^\n]+(?:\n\s+[^\n]+)*  whose first line
\* ends at e: each further line needs "\n", at least one whitespace and one
\* character that is not "\n".
RECURSIVE ContinuationEnd(_, _)
ContinuationEnd(t, e) ==
    IF e > Len(t) THEN e
    ELSE LET q == LastNotIn(t, e + 2,
                            Min(SkipIn(t, e + 1, Whitespace), Len(t)), {NL})
         IN  IF q > 0 THEN ContinuationEnd(t, SkipTo(t, q, {NL})) ELSE e

\* match.group(1).strip() of a label pattern, None when it does not match.
\* multiline: the group is  [^\n]+(?:\n\s+[^\n]+)*  instead of  [^\n]+ .
LabelValue(section, labels, multiline) ==
    LET q == LabelSearch(section, 1, labels)
        e == SkipTo(section, q, {NL})
    IN  IF q = 0 THEN None
        ELSE Some(Strip(SubSeq(section, q,
                 (IF multiline THEN ContinuationEnd(section, e) ELSE e) - 1)))

\* Variant of FallbackAt whose pattern ends in ":" instead of (?::|$): a name
\* needs a colon after it.  C9 as amended fails under it.
FallbackAtColonOnly(t, i) ==
    LET d == SkipIn(t, i, Digits)
        s == IF d > i /\ d <= Len(t) /\ t[d] = "."
             THEN LastNotIn(t, d + 1,
                            Min(SkipIn(t, d + 1, Whitespace), Len(t)), {":", NL})
             ELSE 0
        e(q) == SkipTo(t, q, {":", NL})
    IN  IF s > 0 /\ e(s) <= Len(t) /\ t[e(s)] = ":" THEN s
        ELSE IF i <= Len(t) /\ t[i] \notin {":", NL}
                /\ e(i) <= Len(t) /\ t[e(i)] = ":" THEN i
        ELSE 0

\* The fallback name pattern  ^(?:\d+\.\s*)?([^:\n]+)(?::|$)  tried at the
\* line start i: the start of its group, or 0.  The maximal run [^:\n]+ is
\* always followed by ":", "\n" or the end, so (?::|$) never fails.  With
\* the ordinal marker, \s* gives characters back down to the first one that
\* may start the group; without a match the marker is left out.
FallbackAt(t, i) ==
    LET d == SkipIn(t, i, Digits)
        s == IF d > i /\ d <= Len(t) /\ t[d] = "."
             THEN LastNotIn(t, d + 1,
                            Min(SkipIn(t, d + 1, Whitespace), Len(t)), {":", NL})
             ELSE 0
    IN  IF s > 0 THEN s
        ELSE IF i <= Len(t) /\ t[i] \notin {":", NL} THEN i
        ELSE 0

\* re.search of the fallback pattern under re.MULTILINE: ^ is the start of
\* the section or the index after a "\n".
FallbackSearch(t, i) ==
    LET starts == {j \in i..Len(t) :
                      (j = 1 \/ t[j - 1] = NL) /\ FallbackAt(t, j) > 0}
    IN  IF starts = {} THEN 0
        ELSE FallbackAt(t, CHOOSE j \in starts : \A k \in starts : j <= k)

\* The loop over name_patterns: the first pattern that matches sets the name
\* (stripped, possibly empty) and ends the loop.
ExtractName(section) ==
    LET byLabel == LabelValue(section, NameLabels, FALSE)
        q == FallbackSearch(section, 1)
    IN  IF byLabel # None THEN byLabel
        ELSE IF q > 0
             THEN Some(Strip(SubSeq(section, q, SkipTo(section, q, {":", NL}) - 1)))
        ELSE None

\* medication_info of one section.
MedicationInfo(section, rank) ==
    [rank |-> rank,
     name |-> ExtractName(section),
     active_ingredients |-> LabelValue(section, IngredientsLabels, FALSE),
     dosage |-> LabelValue(section, DosageLabels, TRUE),
     side_effects |-> LabelValue(section, SideEffectsLabels, TRUE)]

\* Variant of HasName that tests  name is not None : an empty name is kept.
\* C4 fails under it.
HasNameNotNone(info) == info.name # None

\* if medication_info["name"]: an entry is kept when its name is neither
\* None nor empty.
HasName(info) == info.name # None /\ info.name[1] # << >>

\* Variant of SectionLoop that increments rank for every section, kept or
\* dropped.  C3 fails under it.
RECURSIVE SectionLoopRankPerSection(_, _, _, _)
SectionLoopRankPerSection(sections, i, rank, meds) ==
    IF i > Len(sections) THEN meds
    ELSE IF ~NonBlank(sections[i])
         THEN SectionLoopRankPerSection(sections, i + 1, rank, meds)
    ELSE LET info == MedicationInfo(sections[i], rank)
         IN  SectionLoopRankPerSection(sections, i + 1, rank + 1,
                 IF HasName(info) THEN Append(meds, info) ELSE meds)

\* The for loop over medication_sections[:3], from section i on, with the
\* counter rank and the list medications built so far.
RECURSIVE SectionLoop(_, _, _, _)
SectionLoop(sections, i, rank, meds) ==
    IF i > Len(sections) THEN meds
    ELSE IF ~NonBlank(sections[i]) THEN SectionLoop(sections, i + 1, rank, meds)
    ELSE LET info == MedicationInfo(sections[i], rank)
         IN  IF HasName(info)
             THEN SectionLoop(sections, i + 1, rank + 1, Append(meds, info))
             ELSE SectionLoop(sections, i + 1, rank, meds)

\* Variant of Processed without the slice: every section is visited.  C10
\* fails under it.
ProcessedAll(t) == medication_sections(t)

\* The sections the loop visits: medication_sections[:3].
Processed(t) ==
    LET sections == medication_sections(t)
    IN  SubSeq(sections, 1, Min(MaxItems, Len(sections)))

\* The body of the try block, for a str.
ParseBody(t) == SectionLoop(Processed(t), 1, 1, << >>)

\* Variant of parse_medication_recommendations without the except clause:
\* the TypeError of re.split reaches the caller.  C2 fails under it.
parse_without_except(v) ==
    IF v.type = "str"
    THEN [raised |-> FALSE, value |-> ParseBody(v.s)]
    ELSE [raised |-> TRUE, value |-> << >>]

\* parse_medication_recommendations(response_text): re.split raises TypeError
\* for a value that is not a str, and the except clause returns [].
parse_medication_recommendations(v) ==
    IF v.type = "str"
    THEN [raised |-> FALSE, value |-> ParseBody(v.s)]
    ELSE [raised |-> FALSE, value |-> << >>]

----------------------------------------------------------------------------
(* Completion client: PerplexityService.query_perplexity *)

\* What the remote endpoint does with the one POST of an invocation.
UpstreamFailures == {"connection_error", "http_error", "bad_json", "missing_fields"}
Failure(kind) == [kind |-> kind, content |-> NoneValue]
Completed(content) == [kind |-> "ok", content |-> content]

\* The try block: requests.post raises on a transport error,
\* raise_for_status on a status that is not 2xx, response.json() on a body
\* that is not JSON, and data["choices"][0]["message"]["content"] on a
\* missing field; otherwise the content is returned as it is.
QueryBody(q, up) ==
    IF up.kind = "ok"
    THEN [raised |-> FALSE, value |-> up.content, posts |-> 1]
    ELSE [raised |-> TRUE, value |-> NoneValue, posts |-> 1]

\* Variant of CaughtQuery without the except clause: the exception of the
\* call reaches the caller.  C5 fails under it.
UncaughtQuery(r) == r

\* except Exception: the error is logged and None returned.
CaughtQuery(r) ==
    IF r.raised THEN [raised |-> FALSE, value |-> NoneValue, posts |-> r.posts]
    ELSE r

\* query_perplexity(query)
query_perplexity(q, up) == CaughtQuery(QueryBody(q, up))

----------------------------------------------------------------------------
(* Prompt builder and service entry: get_medication_recommendations *)

\* ", ".join(symptoms)
RECURSIVE Join(_)
Join(list) ==
    IF list = << >> THEN << >>
    ELSE IF Len(list) = 1 THEN list[1]
    ELSE list[1] \o <<",", " ">> \o Join(Tail(list))

\* The two fixed parts of the f-string, each kept as one unit.
PromptHead == "I have the following symptoms: "
PromptTail == ". Please recommend exactly 3 over-the-counter medications that would help, ranked by effectiveness (1st, 2nd, and 3rd choice). For each medication, provide: 1) Brand name, 2) Active ingredients, 3) Recommended dosage, 4) Side effectsFormat as a list with these details for each medication."

BuildQuery(list) == <<PromptHead>> \o Join(list) \o <<PromptTail>>

\* The lines after the client's return: None when the client returned
\* nothing truthy, otherwise what the extractor returns for its text.
AfterQuery(q, c) ==
    [raised |-> FALSE,
     value |-> IF Truthy(c.value)
               THEN Some(parse_medication_recommendations(c.value).value)
               ELSE None,
     posts |-> c.posts, query |-> Some(q), text |-> Some(c.value)]

\* get_medication_recommendations(symptoms)
get_medication_recommendations(list, up) ==
    AfterQuery(BuildQuery(list), query_perplexity(BuildQuery(list), up))

----------------------------------------------------------------------------
(* Request handler: recommend_medication (POST /recommend) *)

\* The positional parameters of get_medication_recommendations besides self.
ServiceParams == 1

ErrNoSymptoms == "Please enter at least one symptom."
ErrFailed == "Failed to get medication recommendations. Please try again."
ErrUnexpected == "An error occurred while processing your request. Please try again."

\* symptoms.split(','): the pieces between the commas, at least one.
RECURSIVE SplitComma(_, _, _)
SplitComma(s, i, start) ==
    IF i > Len(s) THEN <<SubSeq(s, start, Len(s))>>
    ELSE IF s[i] = "," THEN <<SubSeq(s, start, i - 1)>> \o SplitComma(s, i + 1, i + 1)
    ELSE SplitComma(s, i + 1, start)

\* Variant of StripAll without the filter  if s.strip() : empty symptoms are
\* kept.  C7 fails under it.
RECURSIVE StripAllKeepEmpty(_)
StripAllKeepEmpty(list) ==
    IF list = << >> THEN << >>
    ELSE <<Strip(list[1])>> \o StripAllKeepEmpty(Tail(list))

\* [s.strip() for s in symptoms.split(',') if s.strip()]
RECURSIVE StripAll(_)
StripAll(list) ==
    IF list = << >> THEN << >>
    ELSE IF Strip(list[1]) = << >> THEN StripAll(Tail(list))
    ELSE <<Strip(list[1])>> \o StripAll(Tail(list))

CleanSymptoms(s) == StripAll(SplitComma(s, 1, 1))

\* gender or "not specified": the default replaces None and "".
OrDefault(v, default) == IF v = None \/ v[1] = << >> THEN default ELSE v[1]

\* The call perplexity_service.get_medication_recommendations(*args): Python
\* raises TypeError before the body runs when the positional arguments do
\* not fit the parameters.
CallService(args, up) ==
    IF Len(args) # ServiceParams
    THEN [raised |-> TRUE, value |-> None, posts |-> 0, query |-> None, text |-> None]
    ELSE get_medication_recommendations(args[1], up)

Index(error) ==
    [template |-> "index.html", error |-> Some(error), medications |-> << >>,
     symptoms |-> None]
NoResponse ==
    [template |-> "none", error |-> None, medications |-> << >>, symptoms |-> None]
Results(meds, raw) ==
    [template |-> "results.html", error |-> None, medications |-> meds,
     symptoms |-> Some(raw)]

\* The lines of the try block after the call of the service, r being what
\* the call did.
AfterCall(raw, list, r) ==
    IF r.raised    \* nothing is rendered: the exception leaves the try block
    THEN [r EXCEPT !.value = None] @@ [outcome |-> NoResponse, list |-> list]
    ELSE IF r.value = None \/ r.value = Some(<< >>)    \* if not medications
    THEN r @@ [outcome |-> Index(ErrFailed), list |-> list]
    ELSE r @@ [outcome |-> Results(r.value[1], raw), list |-> list]

\* The try block of the handler, for the cleaned list of symptoms.
TryBlock(raw, list, gender, age, allergic, up) ==
    IF list = << >>
    THEN [raised |-> FALSE, outcome |-> Index(ErrNoSymptoms), list |-> list,
          value |-> None, posts |-> 0, query |-> None, text |-> None]
    ELSE AfterCall(raw, list,
                   CallService(<<list, OrDefault(gender, "not specified"),
                                 OrDefault(age, "not specified"),
                                 OrDefault(allergic, "none")>>, up))

RecommendBody(raw, gender, age, allergic, up) ==
    TryBlock(raw, CleanSymptoms(raw), gender, age, allergic, up)

\* Variant of Caught without the except clause: the exception leaves the
\* handler.  C8 fails under it.
Uncaught(b) == b

\* except Exception: the error is logged and the generic message rendered.
Caught(b) ==
    IF b.raised THEN [b EXCEPT !.raised = FALSE, !.outcome = Index(ErrUnexpected)]
    ELSE b

\* recommend_medication(request, symptoms, gender, age, allergic)
recommend_medication(raw, gender, age, allergic, up) ==
    Caught(RecommendBody(raw, gender, age, allergic, up))

----------------------------------------------------------------------------
(* Inputs *)

\* Bounds of the enumerated inputs.
MaxLines == 4
MaxSymptomChars == 3

\* All sequences over S of length at most n.
SeqsUpTo(S, n) == UNION {[1..k -> S] : k \in 0..n}

\* The lines a response text is made of: an empty line, a numbered name, a
\* line with a dosage and no name, a labelled name, the two kinds of ordinal
\* "choice" line, a name label with a blank value.
LinePool ==
    { << >>,
      <<"1","."," ","A","b">>,
      <<":","d","o","s","a","g","e",":"," ","5">>,
      <<"N","a","m","e",":"," ","T">>,
      <<"2","n","d"," ","c","h","o","i","c","e"," ","M">>,
      <<"c","h","o","i","c","e"," ","3",":"," ","K">>,
      <<"n","a","m","e",":"," ">> }

\* "\n".join(lines)
RECURSIVE JoinLines(_)
JoinLines(lines) ==
    IF lines = << >> THEN << >>
    ELSE IF Len(lines) = 1 THEN lines[1]
    ELSE lines[1] \o <<NL>> \o JoinLines(Tail(lines))

\* 'Active Ingredients: Ibuprofen\nDosage: 200mg twice daily\nBrand Name: Advil'
ScenarioA ==
    <<"A","c","t","i","v","e"," ","I","n","g","r","e","d","i","e","n","t",
      "s",":"," ","I","b","u","p","r","o","f","e","n","\n","D","o","s","a",
      "g","e",":"," ","2","0","0","m","g"," ","t","w","i","c","e"," ","d",
      "a","i","l","y","\n","B","r","a","n","d"," ","N","a","m","e",":"," ",
      "A","d","v","i","l">>

\* 'Advil\n\nTylenol\n\nAleve\n\nMotrin'
ScenarioB ==
    <<"A","d","v","i","l","\n","\n","T","y","l","e","n","o","l","\n","\n",
      "A","l","e","v","e","\n","\n","M","o","t","r","i","n">>

\* 'Just some unrelated text with no structure'
ScenarioC ==
    <<"J","u","s","t"," ","s","o","m","e"," ","u","n","r","e","l","a","t",
      "e","d"," ","t","e","x","t"," ","w","i","t","h"," ","n","o"," ","s",
      "t","r","u","c","t","u","r","e">>

\* '1. Brand Name: Advil\nActive Ingredients: Ibuprofen\nRecommended Dosage: 200mg\n  twice daily\nSide Effects: nausea,\n\tdizziness'
FullRecord ==
    <<"1","."," ","B","r","a","n","d"," ","N","a","m","e",":"," ","A","d",
      "v","i","l","\n","A","c","t","i","v","e"," ","I","n","g","r","e","d",
      "i","e","n","t","s",":"," ","I","b","u","p","r","o","f","e","n","\n",
      "R","e","c","o","m","m","e","n","d","e","d"," ","D","o","s","a","g",
      "e",":"," ","2","0","0","m","g","\n"," "," ","t","w","i","c","e"," ",
      "d","a","i","l","y","\n","S","i","d","e"," ","E","f","f","e","c","t",
      "s",":"," ","n","a","u","s","e","a",",","\n","\t","d","i","z","z","i",
      "n","e","s","s">>

\* 'Advil\n\n:none\n \nAleve\n\nMotrin\n\nBayer'
FiveSections ==
    <<"A","d","v","i","l","\n","\n",":","n","o","n","e","\n"," ","\n","A",
      "l","e","v","e","\n","\n","M","o","t","r","i","n","\n","\n","B","a",
      "y","e","r">>

\* '1. ' and '1. \nAb': an ordinal marker with nothing, or a line end, after it.
MarkerOnly == <<"1", ".", " ">>
MarkerThenName == <<"1", ".", " ", "\n", "A", "b">>

Scenarios ==
    {ScenarioA, ScenarioB, ScenarioC, FullRecord, FiveSections, MarkerOnly,
     MarkerThenName}

Texts == {JoinLines(l) : l \in SeqsUpTo(LinePool, MaxLines)} \cup Scenarios

\* What the extractor may be handed: any str, or a JSON value that is none.
ExtractInputs == {Str(t) : t \in Texts} \cup {JsonInt, NoneValue}

\* The raw "symptoms" form field.
SymptomChars == {"a", ",", " "}
SymptomStrings == SeqsUpTo(SymptomChars, MaxSymptomChars)
SymptomLists == {CleanSymptoms(raw) : raw \in SymptomStrings}

\* An optional form field: absent, empty or filled.
FormFields == {None, Some(<< >>), Some(<<"x">>)}

\* The message content of a completed call.
Contents ==
    {Str(t) : t \in {<< >>, <<"A","b">>, <<":","x">>, ScenarioA, ScenarioB,
                     FiveSections}}
        \cup {JsonInt, NoneValue}

ApiKey == <<"k","e","y">>

\* The answers of the endpoint: without a credential the call is refused or
\* never arrives.
Upstreams(key) ==
    IF key = None
    THEN {Failure("connection_error"), Failure("http_error")}
    ELSE {Failure(k) : k \in UpstreamFailures} \cup {Completed(c) : c \in Contents}

----------------------------------------------------------------------------
(* The service: requests and direct calls of the service's methods *)

\* PerplexityService.__init__: the credential is read once; nothing has run.
Init ==
    /\ api_key \in {None, Some(ApiKey)}
    /\ op = "none"
    /\ symptoms = None
    /\ symptom_list = << >>
    /\ upstream = Failure("connection_error")
    /\ response_text = None
    /\ medications = None
    /\ query = None
    /\ posts = 0
    /\ outcome = None
    /\ raised = FALSE

\* The entry point name has run on these inputs and returned r.
Returned(name, raw, list, up, r, text, rendered) ==
    /\ op' = name
    /\ symptoms' = raw
    /\ symptom_list' = list
    /\ upstream' = up
    /\ response_text' = text
    /\ medications' = r.value
    /\ query' = r.query
    /\ posts' = r.posts
    /\ outcome' = rendered
    /\ raised' = r.raised
    /\ UNCHANGED api_key

RecommendReturned(raw, up, r) ==
    Returned("recommend_medication", Some(raw), r.list, up, r, r.text,
             Some(r.outcome))

\* POST /recommend
Recommend ==
    /\ op = "none"
    /\ \E raw \in SymptomStrings, gender \in FormFields, age \in FormFields,
          allergic \in FormFields, up \in Upstreams(api_key) :
          RecommendReturned(raw, up,
                            recommend_medication(raw, gender, age, allergic, up))

GetReturned(list, up, r) ==
    Returned("get_medication_recommendations", None, list, up, r, r.text, None)

\* A call of get_medication_recommendations with a list of symptoms.
GetRecommendations ==
    /\ op = "none"
    /\ \E list \in SymptomLists, up \in Upstreams(api_key) :
          GetReturned(list, up, get_medication_recommendations(list, up))

QueryReturned(q, up, r) ==
    Returned("query_perplexity", None, << >>, up,
             [value |-> None, query |-> Some(q), posts |-> r.posts,
              raised |-> r.raised],
             Some(r.value), None)

\* A call of query_perplexity with a prompt.
QueryPerplexity ==
    /\ op = "none"
    /\ \E list \in SymptomLists, up \in Upstreams(api_key) :
          QueryReturned(BuildQuery(list), up,
                        query_perplexity(BuildQuery(list), up))

\* The entry point has returned and the caller has its answer: the service
\* keeps nothing of the invocation but its configuration.
Return ==
    /\ op # "none"
    /\ op' = "none"
    /\ symptoms' = None
    /\ symptom_list' = << >>
    /\ upstream' = Failure("connection_error")
    /\ response_text' = None
    /\ medications' = None
    /\ query' = None
    /\ posts' = 0
    /\ outcome' = None
    /\ raised' = FALSE
    /\ UNCHANGED api_key

Next == Recommend \/ GetRecommendations \/ QueryPerplexity \/ Return

Spec == Init /\ [][Next]_vars

----------------------------------------------------------------------------
(* The extractor alone, on every input *)

InitExtract ==
    /\ api_key = None
    /\ op = "none"
    /\ symptoms = None
    /\ symptom_list = << >>
    /\ upstream = Failure("connection_error")
    /\ response_text \in {Some(v) : v \in ExtractInputs}
    /\ medications = None
    /\ query = None
    /\ posts = 0
    /\ outcome = None
    /\ raised = FALSE

\* The extractor has returned r.
ParseReturned(r) ==
    /\ op' = "parse_medication_recommendations"
    /\ medications' = IF r.raised THEN None ELSE Some(r.value)
    /\ raised' = r.raised
    /\ UNCHANGED <<api_key, symptoms, symptom_list, upstream, response_text,
                   query, posts, outcome>>

\* A call of parse_medication_recommendations(response_text).
Parse ==
    /\ op = "none"
    /\ ParseReturned(parse_medication_recommendations(response_text[1]))

NextExtract == Parse

SpecExtract == InitExtract /\ [][NextExtract]_vars

----------------------------------------------------------------------------
(* Properties of the extractor, checked under SpecExtract *)

Parsed == op = "parse_medication_recommendations"
IsText == response_text # None /\ response_text[1].type = "str"

\* The list the extractor returned.
Returned_list == medications[1]

\* Whether a non-empty name is extracted from a section.
NameFound(section) ==
    LET n == ExtractName(section) IN n # None /\ n[1] # << >>

\* The first three of a list of sections.
FirstThree(sections) == SubSeq(sections, 1, Min(3, Len(sections)))

\* The non-blank sections of the input text.
InputSections == medication_sections(response_text[1].s)

\* C2: for any input (the empty string, text without structure, a value that
\* is no str) the extractor returns a list of 0 to 3 entries and raises
\* nothing; an exception inside it gives the empty list.
C2_ExtractTotal ==
    Parsed =>
        /\ ~raised
        /\ medications # None
        /\ Len(Returned_list) \in 0..3
        /\ (~IsText => Returned_list = << >>)

\* C2 witness: the extractor was handed a value that is no str, so that
\* re.split raised, and it returned the empty list.
C2_Witness ==
    /\ Parsed
    /\ response_text[1].type = "int"
    /\ medications = Some(<< >>)
    /\ ~raised

\* C3: the ranks of the returned list, in list order, are 1, 2, ..., len.
C3_RanksContiguous ==
    (Parsed /\ medications # None) =>
        \A k \in 1..Len(Returned_list) : Returned_list[k].rank = k

\* C3 witness: the first section was dropped for lacking a name and two
\* later sections were kept.
C3_Witness ==
    /\ Parsed /\ IsText /\ medications # None
    /\ Len(Returned_list) = 2
    /\ Returned_list[2].rank = 2
    /\ LET first == FirstThree(InputSections)
       IN  Len(first) = 3 /\ ~NameFound(first[1])

\* C4: a processed section yields an entry exactly when a non-empty name was
\* extracted from it, whatever the other fields: there are as many entries
\* as processed sections with a name, and every entry's name is neither None
\* nor empty.
C4_NameDecidesInclusion ==
    (Parsed /\ IsText /\ medications # None) =>
        LET first == FirstThree(InputSections)
        IN  /\ Len(Returned_list)
                 = Cardinality({i \in 1..Len(first) : NameFound(first[i])})
            /\ \A k \in 1..Len(Returned_list) :
                  /\ Returned_list[k].name # None
                  /\ Returned_list[k].name[1] # << >>

\* C4 witness: of two processed sections, the one with a dosage and no name
\* was dropped and the one with a name and no other field was kept.
C4_Witness ==
    /\ Parsed /\ IsText /\ medications # None
    /\ Len(Returned_list) = 1
    /\ Returned_list[1].dosage = None
    /\ Returned_list[1].active_ingredients = None
    /\ Returned_list[1].side_effects = None
    /\ LET first == FirstThree(InputSections)
       IN  /\ Len(first) = 2
           /\ ~NameFound(first[1])
           /\ LabelValue(first[1], DosageLabels, TRUE) # None

ScenarioCEntry ==
    [rank |-> 1, name |-> Some(ScenarioC), active_ingredients |-> None,
     dosage |-> None, side_effects |-> None]

\* C9 as claimed: for "Just some unrelated text with no structure" the
\* extractor returns the empty list.
C9_ScenarioCEmpty ==
    (Parsed /\ response_text = Some(Str(ScenarioC))) => medications = Some(<< >>)

\* C9 as amended: for "Just some unrelated text with no structure" the
\* extractor returns one entry, of rank 1, whose name is the whole text (the
\* fallback pattern ends at the end of the line) and whose other fields are
\* None.
C9_ScenarioCWholeText ==
    (Parsed /\ response_text = Some(Str(ScenarioC))) =>
        medications = Some(<<ScenarioCEntry>>)

\* C9 witness: the extractor has run on that text.
C9_Witness == Parsed /\ response_text = Some(Str(ScenarioC))

\* C10: the returned entries are those of the named sections among the
\* first three non-blank sections, in the order met and ranked from 1; with
\* four or more sections of which the first three have a name the list has
\* exactly three entries; no later section is ever used to fill the list.
C10_FirstThreeOnly ==
    (Parsed /\ IsText /\ medications # None) =>
        LET sections == InputSections
            named == SelectSeq(FirstThree(sections), NameFound)
        IN  /\ Len(Returned_list) = Len(named)
            /\ \A k \in 1..Len(Returned_list) :
                  Returned_list[k] = MedicationInfo(named[k], k)
            /\ (Len(sections) >= 4 /\ Len(named) = 3 => Len(Returned_list) = 3)

\* C10 witness: the input has at least four sections, one of the first three
\* has no name, the fourth has one, and fewer than three entries came back.
C10_Witness ==
    /\ Parsed /\ IsText /\ medications # None
    /\ Len(Returned_list) = 2
    /\ LET sections == InputSections
       IN  /\ Len(sections) >= 4
           /\ NameFound(sections[4])
           /\ Len(SelectSeq(FirstThree(sections), NameFound)) = 2

----------------------------------------------------------------------------
(* Properties of the requests and of the completion client, checked under Spec *)

Requested == op = "recommend_medication"

\* The form field holds a symptom: a character that is neither a comma nor
\* whitespace.
HasSymptom == \E i \in 1..Len(symptoms[1]) : symptoms[1][i] \notin Whitespace \cup {","}

\* The endpoint answers this request's prompt with a non-empty text.
TextCompleted ==
    upstream.kind = "ok" /\ upstream.content.type = "str" /\ upstream.content.s # << >>

\* C1: a request with at least one symptom builds the prompt, calls the
\* completion client exactly once and, when the client returns text, renders
\* what the extractor makes of that text; it does not end in the generic
\* error without the client having been called.
C1_RequestReachesClient ==
    (Requested /\ HasSymptom) =>
        /\ query = Some(BuildQuery(symptom_list))
        /\ posts = 1
        /\ ~(outcome = Some(Index(ErrUnexpected)) /\ posts = 0)
        /\ (TextCompleted =>
              /\ response_text = Some(upstream.content)
              /\ medications = Some(ParseBody(upstream.content.s)))

\* C5: the completion client raises nothing, makes at most one POST and
\* returns the content of a completed call or None; every failure of the
\* call, a missing credential included, gives None.
C5_ClientNeverRaises ==
    op \in {"query_perplexity", "get_medication_recommendations"} =>
        /\ ~raised
        /\ posts <= 1
        /\ response_text
             = Some(IF upstream.kind = "ok" THEN upstream.content ELSE NoneValue)

\* C5 witness: the client was called without a credential, the endpoint
\* refused the one POST, and the client returned None.
C5_Witness ==
    /\ op = "query_perplexity"
    /\ api_key = None
    /\ upstream.kind = "http_error"
    /\ posts = 1
    /\ response_text = Some(NoneValue)
    /\ ~raised

\* C6: when the client returns text from which the extractor gets nothing,
\* the request renders the empty list with the echoed symptoms, not an
\* error.
C6_EmptyListIsNoError ==
    (Requested /\ HasSymptom /\ TextCompleted
       /\ ParseBody(upstream.content.s) = << >>) =>
        outcome = Some(Results(<< >>, symptoms[1]))

\* C7: a request whose form field holds no symptom is answered with "Please
\* enter at least one symptom." and the completion client is not called: no
\* prompt, no POST.
C7_NoSymptomsRejected ==
    (Requested /\ ~HasSymptom) =>
        /\ outcome = Some(Index(ErrNoSymptoms))
        /\ posts = 0
        /\ query = None
        /\ response_text = None

\* C7 witness: a form field of commas and blanks only was rejected.
C7_Witness ==
    /\ Requested
    /\ \E i \in 1..Len(symptoms[1]) : symptoms[1][i] = ","
    /\ \E i \in 1..Len(symptoms[1]) : symptoms[1][i] = " "
    /\ ~HasSymptom
    /\ outcome = Some(Index(ErrNoSymptoms))

\* C8: no request ends in an exception: each renders one of the three error
\* messages or the list of recommendations.
C8_RequestNeverRaises ==
    Requested =>
        /\ ~raised
        /\ outcome # None
        /\ \/ outcome[1] \in {Index(ErrNoSymptoms), Index(ErrFailed),
                              Index(ErrUnexpected)}
           \/ /\ outcome[1].template = "results.html"
              /\ outcome[1].error = None

\* C8 witness: an exception was raised inside the handler and the request was
\* answered with the generic message.
C8_Witness ==
    /\ Requested
    /\ HasSymptom
    /\ ~raised
    /\ outcome = Some(Index(ErrUnexpected))

====
